---- MODULE Spec2Model ----
(***************************************************************************)
(* Model of the WorkoutTimer component                                     *)
(* (src/copy-of-gemini-workout-timer (1)/components/WorkoutTimer.tsx):     *)
(* the timerReducer, the total-time formula, the two driver effects (the   *)
(* interval that dispatches TICK, the observer that dispatches NEXT_PHASE) *)
(* and the buttons.                                                        *)
(*                                                                         *)
(* React semantics used by the model: dispatch() appends an action to the  *)
(* update queue of the reducer hook; a render applies the queued actions   *)
(* in dispatch order and commits the result; after a commit the effects    *)
(* whose dependencies differ from the previous commit run (cleanup first), *)
(* in declaration order, before the next render.                           *)
(***************************************************************************)
EXTENDS Integers, Sequences, FiniteSets, TLC

\* ------------------------------------------------------------------------
\* Bounds of the exploration
\* ------------------------------------------------------------------------
MaxExercises == 2
MaxDuration == 1
MaxSets == 2
MaxRest == 1
MaxQueue == 2
MaxStarts == 2
MaxElapsed == 4

\* ------------------------------------------------------------------------
\* Program constants
\* ------------------------------------------------------------------------
PREPARE_TIME == 5

VARIABLES
    program,      \* props.program: the WorkoutProgram of this session
    state,        \* the committed TimerState of useReducer
    queue,        \* actions dispatched and not yet rendered, in dispatch order
    interval,     \* number of live setInterval timers
    mounted,      \* the component is mounted
    finishCalls,  \* number of onFinish invocations
    starts,       \* number of START actions dispatched by the driver effect
    trace,        \* history: the phases entered up to the first DONE
    prev,         \* history: the TimerState before the last step
    last,         \* history: the actions the last step applied to the reducer
    sounds,       \* history: the playSound calls of the last step
    view,         \* App: the view on screen
    editor,       \* ProgramEditor: the program being edited
    programs,     \* App: the programs loaded from the store
    ends,         \* history: the playSound('end') calls since the mount
    ticks         \* history: the honoured TICKs of the current phase

appVars == <<view, editor, programs>>

histVars == <<ends, ticks>>

vars == <<program, state, queue, interval, mounted, finishCalls, starts,
          trace, prev, last, sounds, view, editor, programs, ends, ticks>>

Phases == {"PREPARE", "WORK", "REST", "SET_REST", "DONE"}
Statuses == {"RUNNING", "PAUSED", "IDLE"}
ActionTypes == {"START", "TICK", "PAUSE", "RESUME", "STOP", "NEXT_PHASE"}

\* The example program of the specification: exercises (10, 20), 2 sets,
\* rests 5 and 15.
ExampleProgram ==
    [exercises |-> <<10, 20>>, sets |-> 2,
     restBetweenExercises |-> 5, restBetweenSets |-> 15]

\* interface WorkoutProgram: exercises are represented by their duration.
Programs ==
    { [exercises |-> e, sets |-> k,
       restBetweenExercises |-> r, restBetweenSets |-> q] :
        e \in UNION { [1..n -> 0..MaxDuration] : n \in 1..MaxExercises },
        k \in 1..MaxSets, r \in 0..MaxRest, q \in 0..MaxRest }
    \cup {ExampleProgram}

\* ProgramEditor: the program a new editor starts from.
newProgram ==
    [name |-> "", exercises |-> <<>>,
     restBetweenExercises |-> 10, restBetweenSets |-> 60, sets |-> 3]

RECURSIVE SumSeq(_)
SumSeq(s) == IF s = <<>> THEN 0 ELSE Head(s) + SumSeq(Tail(s))

\* program.exercises[i].duration, i counted from 0 as in the source.
Duration(i) == program.exercises[i + 1]

NumExercises == Len(program.exercises)

calculateTotalTimeMutant ==
    LET totalWorkTime == SumSeq(program.exercises) * program.sets
        totalRestTime == program.restBetweenExercises * (NumExercises - 1) * program.sets
        totalSetRestTime == program.restBetweenSets * program.sets
    IN  PREPARE_TIME + totalWorkTime + totalRestTime + totalSetRestTime

calculateTotalTime ==
    LET totalWorkTime == SumSeq(program.exercises) * program.sets
        totalRestTime == program.restBetweenExercises * (NumExercises - 1) * program.sets
        totalSetRestTime == program.restBetweenSets * (program.sets - 1)
    IN  PREPARE_TIME + totalWorkTime + totalRestTime + totalSetRestTime

initialState ==
    [phase |-> "PREPARE",
     status |-> "IDLE",
     timeLeft |-> PREPARE_TIME,
     currentSet |-> 1,
     currentExerciseIndex |-> 0,
     totalWorkoutTime |-> calculateTotalTime,
     elapsedTime |-> 0]

\* ------------------------------------------------------------------------
\* timerReducer, one operator per case
\* ------------------------------------------------------------------------
StartMutant(s) ==
    [s EXCEPT !.status = "RUNNING", !.phase = "PREPARE", !.timeLeft = PREPARE_TIME - 1]

Start(s) ==
    [s EXCEPT !.status = "RUNNING", !.phase = "PREPARE", !.timeLeft = PREPARE_TIME]

PauseMutant(s) ==
    [s EXCEPT !.status = IF s.status = "PAUSED" THEN "RUNNING" ELSE "PAUSED"]

Pause(s) == [s EXCEPT !.status = "PAUSED"]

Resume(s) == [s EXCEPT !.status = "RUNNING"]

StopMutant(s) == [initialState EXCEPT !.elapsedTime = s.elapsedTime]

Stop(s) == initialState

TickMutant(s) ==
    IF s.timeLeft <= 0
    THEN s
    ELSE [s EXCEPT !.timeLeft = s.timeLeft - 1, !.elapsedTime = s.elapsedTime + 1]

Tick(s) ==
    IF s.status # "RUNNING" \/ s.timeLeft <= 0
    THEN s
    ELSE [s EXCEPT !.timeLeft = s.timeLeft - 1, !.elapsedTime = s.elapsedTime + 1]

NextPhaseSetMutant(s) ==
    CASE s.phase = "PREPARE" ->
            [s EXCEPT !.phase = "WORK", !.timeLeft = Duration(0)]
      [] s.phase = "WORK" ->
            LET isLastExercise == s.currentExerciseIndex = NumExercises - 1
                isLastSet == s.currentSet > program.sets
            IN  IF isLastExercise
                THEN IF isLastSet
                     THEN [s EXCEPT !.phase = "DONE", !.status = "IDLE"]
                     ELSE [s EXCEPT !.phase = "SET_REST",
                                    !.timeLeft = program.restBetweenSets]
                ELSE [s EXCEPT !.phase = "REST",
                               !.timeLeft = program.restBetweenExercises]
      [] s.phase = "REST" ->
            LET nextExerciseIndex == s.currentExerciseIndex + 1
            IN  [s EXCEPT !.phase = "WORK",
                          !.currentExerciseIndex = nextExerciseIndex,
                          !.timeLeft = Duration(nextExerciseIndex)]
      [] s.phase = "SET_REST" ->
            [s EXCEPT !.phase = "WORK",
                      !.currentSet = s.currentSet + 1,
                      !.currentExerciseIndex = 0,
                      !.timeLeft = Duration(0)]
      [] OTHER -> s

NextPhaseMutant(s) ==
    CASE s.phase = "PREPARE" ->
            [s EXCEPT !.phase = "WORK", !.timeLeft = Duration(0)]
      [] s.phase = "WORK" ->
            LET isLastExercise == s.currentExerciseIndex = NumExercises - 1
                isLastSet == s.currentSet = program.sets
            IN  IF isLastExercise
                THEN IF isLastSet
                     THEN [s EXCEPT !.phase = "DONE", !.status = "IDLE"]
                     ELSE [s EXCEPT !.phase = "SET_REST",
                                    !.timeLeft = program.restBetweenSets]
                ELSE [s EXCEPT !.phase = "REST",
                               !.timeLeft = program.restBetweenExercises]
      [] s.phase = "REST" ->
            LET nextExerciseIndex == s.currentExerciseIndex + 1
            IN  [s EXCEPT !.phase = "WORK",
                          !.currentExerciseIndex = nextExerciseIndex,
                          !.timeLeft = Duration(nextExerciseIndex)]
      [] s.phase = "SET_REST" ->
            [s EXCEPT !.phase = "WORK",
                      !.currentSet = s.currentSet + 1,
                      !.timeLeft = Duration(s.currentExerciseIndex)]
      [] OTHER -> s

NextPhase(s) ==
    CASE s.phase = "PREPARE" ->
            [s EXCEPT !.phase = "WORK", !.timeLeft = Duration(0)]
      [] s.phase = "WORK" ->
            LET isLastExercise == s.currentExerciseIndex = NumExercises - 1
                isLastSet == s.currentSet = program.sets
            IN  IF isLastExercise
                THEN IF isLastSet
                     THEN [s EXCEPT !.phase = "DONE", !.status = "IDLE"]
                     ELSE [s EXCEPT !.phase = "SET_REST",
                                    !.timeLeft = program.restBetweenSets]
                ELSE [s EXCEPT !.phase = "REST",
                               !.timeLeft = program.restBetweenExercises]
      [] s.phase = "REST" ->
            LET nextExerciseIndex == s.currentExerciseIndex + 1
            IN  [s EXCEPT !.phase = "WORK",
                          !.currentExerciseIndex = nextExerciseIndex,
                          !.timeLeft = Duration(nextExerciseIndex)]
      [] s.phase = "SET_REST" ->
            [s EXCEPT !.phase = "WORK",
                      !.currentSet = s.currentSet + 1,
                      !.currentExerciseIndex = 0,
                      !.timeLeft = Duration(0)]
      [] OTHER -> s

timerReducer(s, a) ==
    CASE a = "START" -> Start(s)
      [] a = "PAUSE" -> Pause(s)
      [] a = "RESUME" -> Resume(s)
      [] a = "STOP" -> Stop(s)
      [] a = "TICK" -> Tick(s)
      [] a = "NEXT_PHASE" -> NextPhase(s)
      [] OTHER -> s

playSoundMutant(s, a) ==
    CASE a = "START" -> <<"start">>
      [] a = "TICK" ->
            IF s.status # "RUNNING" \/ s.timeLeft <= 0
            THEN <<>>
            ELSE IF s.timeLeft - 1 <= 3
                 THEN <<"tick">>
                 ELSE <<>>
      [] a = "NEXT_PHASE" -> <<"end">>
      [] OTHER -> <<>>

\* The playSound calls timerReducer makes for action a in state s.
playSound(s, a) ==
    CASE a = "START" -> <<"start">>
      [] a = "TICK" ->
            IF s.status # "RUNNING" \/ s.timeLeft <= 0
            THEN <<>>
            ELSE IF s.timeLeft - 1 <= 3 /\ s.timeLeft - 1 > 0
                 THEN <<"tick">>
                 ELSE <<>>
      [] a = "NEXT_PHASE" -> <<"end">>
      [] OTHER -> <<>>

\* A render: the queued actions go through the reducer in dispatch order.
RECURSIVE Reduce(_, _)
Reduce(s, q) ==
    IF q = <<>> THEN s ELSE Reduce(timerReducer(s, Head(q)), Tail(q))

RECURSIVE SoundsOf(_, _)
SoundsOf(s, q) ==
    IF q = <<>> THEN <<>>
    ELSE playSound(s, Head(q)) \o SoundsOf(timerReducer(s, Head(q)), Tail(q))

\* History: a phase is entered by START and by every NEXT_PHASE that changes
\* the phase; the entry records the state right after the action.
Entry(s) ==
    [phase |-> s.phase, set |-> s.currentSet,
     idx |-> s.currentExerciseIndex, timeLeft |-> s.timeLeft]

RECURSIVE EntriesOf(_, _)
EntriesOf(s, q) ==
    IF q = <<>> THEN <<>>
    ELSE LET a == Head(q)
             n == timerReducer(s, a)
             e == IF a = "START" \/ (a = "NEXT_PHASE" /\ n.phase # s.phase)
                  THEN <<Entry(n)>> ELSE <<>>
         IN  e \o EntriesOf(n, Tail(q))

RECURSIVE UpToDone(_)
UpToDone(t) ==
    IF t = <<>> THEN <<>>
    ELSE IF Head(t).phase = "DONE" THEN <<Head(t)>>
    ELSE <<Head(t)>> \o UpToDone(Tail(t))

\* History: the number of 'end' sounds among the playSound calls snd.
RECURSIVE EndsOf(_)
EndsOf(snd) ==
    IF snd = <<>> THEN 0
    ELSE (IF Head(snd) = "end" THEN 1 ELSE 0) + EndsOf(Tail(snd))

\* History: the TICKs the reducer honoured in the current phase, n of them
\* before the actions q; START and NEXT_PHASE begin a phase.
RECURSIVE TicksOf(_, _, _)
TicksOf(s, q, n) ==
    IF q = <<>> THEN n
    ELSE LET a == Head(q)
             m == CASE a \in {"START", "NEXT_PHASE"} -> 0
                    [] a = "TICK" /\ timerReducer(s, a) # s -> n + 1
                    [] OTHER -> n
         IN  TicksOf(timerReducer(s, a), Tail(q), m)

\* The index of the exercise the preview shows.
nextExerciseMutant(s) ==
    IF s.phase \in {"WORK", "REST"} /\ s.currentExerciseIndex < NumExercises - 1
    THEN s.currentExerciseIndex
    ELSE 0

nextExercise(s) ==
    IF s.phase \in {"WORK", "REST"} /\ s.currentExerciseIndex < NumExercises - 1
    THEN s.currentExerciseIndex + 1
    ELSE 0

\* ------------------------------------------------------------------------
\* Derived values of the render
\* ------------------------------------------------------------------------
getPhaseDuration(s) ==
    CASE s.phase = "PREPARE" -> PREPARE_TIME
      [] s.phase = "WORK" -> Duration(s.currentExerciseIndex)
      [] s.phase = "REST" -> program.restBetweenExercises
      [] s.phase = "SET_REST" -> program.restBetweenSets
      [] OTHER -> 1

\* The JavaScript number a / b for integers a and b: a fraction, or NaN for
\* 0 / 0, or an infinity for a nonzero a over 0.
Divide(a, b) ==
    IF b # 0 THEN [kind |-> "number", num |-> a, den |-> b]
    ELSE IF a = 0 THEN [kind |-> "NaN", num |-> 0, den |-> 0]
    ELSE IF a > 0 THEN [kind |-> "Infinity", num |-> 1, den |-> 0]
    ELSE [kind |-> "-Infinity", num |-> -1, den |-> 0]

phaseProgress(s) ==
    IF s.phase = "DONE"
    THEN [kind |-> "number", num |-> 1, den |-> 1]
    ELSE Divide(getPhaseDuration(s) - s.timeLeft, getPhaseDuration(s))

\* ------------------------------------------------------------------------
\* The component
\* ------------------------------------------------------------------------
\* Mount: the first render commits initialState; the driver effect finds
\* status IDLE, dispatches START and returns without a timer; the observer
\* finds timeLeft = 5.
Init ==
    /\ program \in Programs
    /\ state = initialState
    /\ queue = <<"START">>
    /\ interval = 0
    /\ mounted = TRUE
    /\ finishCalls = 0
    /\ starts = 1
    /\ trace = <<>>
    /\ prev = initialState
    /\ last = <<>>
    /\ sounds = <<>>
    /\ view = "WORKOUT_TIMER"
    /\ editor = newProgram
    /\ programs = {}
    /\ ends = 0
    /\ ticks = 0

\* The observer effect, deps [state.timeLeft, state.phase]: it runs after a
\* commit whose timeLeft or phase differs from the commit before, and
\* dispatches NEXT_PHASE when timeLeft is 0 and the phase is not DONE.
ObserverDispatchesMutant(old, new) ==
    /\ new.timeLeft # old.timeLeft
    /\ new.timeLeft = 0 /\ new.phase # "DONE"

ObserverDispatches(old, new) ==
    /\ new.timeLeft # old.timeLeft \/ new.phase # old.phase
    /\ new.timeLeft = 0 /\ new.phase # "DONE"

\* The driver effect, deps [state.status]: it runs after a commit whose
\* status differs from the commit before; it dispatches START when the
\* status is IDLE.
DriverDispatchesStart(old, new) ==
    new.status # old.status /\ new.status = "IDLE"

\* The timers alive after the driver effect: the cleanup of the run before
\* (clearInterval, when that run had set a timer) and a new setInterval when
\* the status is RUNNING.
TimersAfterStartOnly(old, new, n) ==
    IF new.status # old.status
    THEN n - (IF old.status = "RUNNING" THEN 1 ELSE 0)
           + (IF new.status = "RUNNING" /\ old.status = "IDLE" THEN 1 ELSE 0)
    ELSE n

TimersAfterMutant(old, new, n) ==
    IF new.status # old.status
    THEN n + (IF new.status = "RUNNING" THEN 1 ELSE 0)
    ELSE n

TimersAfter(old, new, n) ==
    IF new.status # old.status
    THEN n - (IF old.status = "RUNNING" THEN 1 ELSE 0)
           + (IF new.status = "RUNNING" THEN 1 ELSE 0)
    ELSE n

\* A render of the queued actions q, its commit and the effects after it.
Commit(q) ==
    LET new == Reduce(state, q)
        dispatchStart == DriverDispatchesStart(state, new)
        dispatchNext == ObserverDispatches(state, new)
    IN  /\ dispatchStart => starts < MaxStarts
        /\ state' = new
        /\ queue' = (IF dispatchStart THEN <<"START">> ELSE <<>>)
                    \o (IF dispatchNext THEN <<"NEXT_PHASE">> ELSE <<>>)
        /\ interval' = TimersAfter(state, new, interval)
        /\ starts' = IF dispatchStart THEN starts + 1 ELSE starts
        /\ trace' = UpToDone(trace \o EntriesOf(state, q))
        /\ prev' = state
        /\ last' = q
        /\ sounds' = SoundsOf(state, q)
        /\ ends' = ends + EndsOf(SoundsOf(state, q))
        /\ ticks' = TicksOf(state, q, ticks)
        /\ UNCHANGED <<program, mounted, finishCalls>>
        /\ UNCHANGED appVars

Render ==
    /\ mounted
    /\ queue # <<>>
    /\ Commit(queue)

\* The setInterval callback: dispatch({ type: 'TICK' }).
IntervalFire ==
    /\ mounted
    /\ interval > 0
    /\ Len(queue) < MaxQueue
    /\ queue' = Append(queue, "TICK")
    /\ prev' = state
    /\ last' = <<>>
    /\ sounds' = <<>>
    /\ UNCHANGED <<program, state, interval, mounted, finishCalls, starts, trace>>
    /\ UNCHANGED <<appVars, histVars>>

\* A click dispatches to the queue; one unrendered click at a time.
Click(a) ==
    /\ mounted
    /\ state.phase # "DONE"
    /\ Len(queue) < MaxQueue
    /\ \A i \in 1..Len(queue) : queue[i] \notin {"PAUSE", "RESUME"}
    /\ queue' = Append(queue, a)
    /\ prev' = state
    /\ last' = <<>>
    /\ sounds' = <<>>
    /\ UNCHANGED <<program, state, interval, mounted, finishCalls, starts, trace>>
    /\ UNCHANGED <<appVars, histVars>>

ClickPause == state.status = "RUNNING" /\ Click("PAUSE")

ClickResume == state.status # "RUNNING" /\ Click("RESUME")

\* An onFinish that leaves the WORKOUT_TIMER view on screen.
ClickFinishMutant ==
    /\ mounted
    /\ finishCalls' = finishCalls + 1
    /\ prev' = state
    /\ last' = <<>>
    /\ sounds' = <<>>
    /\ UNCHANGED <<program, state, queue, interval, mounted, starts, trace>>
    /\ UNCHANGED <<appVars, histVars>>

\* The stop button and the "Back to Programs" button call onFinish; the
\* parent leaves the WORKOUT_TIMER view and the component unmounts, which
\* runs the cleanup of the driver effect.
ClickFinish ==
    /\ mounted
    /\ mounted' = FALSE
    /\ finishCalls' = finishCalls + 1
    /\ interval' = interval - (IF state.status = "RUNNING" THEN 1 ELSE 0)
    /\ queue' = <<>>
    /\ prev' = state
    /\ last' = <<>>
    /\ sounds' = <<>>
    /\ view' = "PROGRAM_LIST"
    /\ UNCHANGED <<program, state, starts, trace, editor, programs, histVars>>

Next == Render \/ IntervalFire \/ ClickPause \/ ClickResume \/ ClickFinish

Spec == Init /\ [][Next]_vars

\* The session run by the driver alone: no click.
NextDriver == Render \/ IntervalFire

SpecDriver == Init /\ [][NextDriver]_vars

\* The programs of the sessions followed for termination: durations and
\* rests at the ends of their ranges, and the example program.
LivePrograms ==
    { p \in Programs :
        /\ p.restBetweenSets \in {0, MaxRest}
        /\ p.restBetweenExercises \in {0, MaxRest}
        /\ \A i \in 1..Len(p.exercises) : p.exercises[i] \in {0, MaxDuration} }
    \cup {ExampleProgram}

InitLive == Init /\ program \in LivePrograms

\* A session with Pause and Resume clicks and no onFinish, under the
\* scheduling of the runtime: a queued update is rendered, a live interval
\* fires, and a paused session is resumed.
NextLive == Render \/ IntervalFire \/ ClickPause \/ ClickResume

SpecLive ==
    /\ InitLive
    /\ [][NextLive]_vars
    /\ WF_vars(Render)
    /\ WF_vars(IntervalFire)
    /\ WF_vars(ClickResume)

\* The reducer under any sequence of the six actions, one per step.
InitEvents ==
    /\ program \in Programs
    /\ state = initialState
    /\ queue = <<>>
    /\ interval = 0
    /\ mounted = TRUE
    /\ finishCalls = 0
    /\ starts = 0
    /\ trace = <<>>
    /\ prev = initialState
    /\ last = <<>>
    /\ sounds = <<>>
    /\ view = "WORKOUT_TIMER"
    /\ editor = newProgram
    /\ programs = {}
    /\ ends = 0
    /\ ticks = 0

Dispatch(a) ==
    /\ a = "TICK" => state.elapsedTime < MaxElapsed
    /\ state' = timerReducer(state, a)
    /\ prev' = state
    /\ last' = <<a>>
    /\ sounds' = playSound(state, a)
    /\ UNCHANGED <<program, queue, interval, mounted, finishCalls, starts, trace>>
    /\ UNCHANGED <<appVars, histVars>>

NextEvents == \E a \in ActionTypes : Dispatch(a)

SpecEvents == InitEvents /\ [][NextEvents]_vars

\* ------------------------------------------------------------------------
\* The program editor and the program list
\* ------------------------------------------------------------------------
\* What the user types into a number field.
NumberInputs == {"", "0", "2", "-1"}

NameInputs == {"", "HIIT"}

\* parseInt(value, 10): a number, or NaN.
parseInt(v) ==
    CASE v = "0" -> [nan |-> FALSE, val |-> 0]
      [] v = "2" -> [nan |-> FALSE, val |-> 2]
      [] v = "-1" -> [nan |-> FALSE, val |-> -1]
      [] OTHER -> [nan |-> TRUE, val |-> 0]

\* x || 0 for a number x: 0 for NaN and for 0.
OrZero(x) == IF x.nan \/ x.val = 0 THEN 0 ELSE x.val

\* The WorkoutProgram the timer reads of a stored program.
ToProgram(e) ==
    [exercises |-> e.exercises, sets |-> e.sets,
     restBetweenExercises |-> e.restBetweenExercises,
     restBetweenSets |-> e.restBetweenSets]

\* services/api saveProgram followed by loadPrograms: a keyed-record store.
StorePut(ps, e) == ps \cup {e}

InitEditor ==
    /\ view = "PROGRAM_LIST"
    /\ editor = newProgram
    /\ programs = {}
    /\ ends = 0
    /\ ticks = 0
    /\ program = ToProgram(newProgram)
    /\ state = initialState
    /\ queue = <<>>
    /\ interval = 0
    /\ mounted = FALSE
    /\ finishCalls = 0
    /\ starts = 0
    /\ trace = <<>>
    /\ prev = initialState
    /\ last = <<>>
    /\ sounds = <<>>

timerVars == <<program, state, queue, interval, mounted, finishCalls, starts,
               trace, prev, last, sounds, ends, ticks>>

\* The "New" button; one program is created and listed.
handleCreateNew ==
    /\ view = "PROGRAM_LIST"
    /\ programs = {}
    /\ view' = "PROGRAM_EDITOR"
    /\ editor' = newProgram
    /\ UNCHANGED <<programs, timerVars>>

handleInputChange ==
    /\ view = "PROGRAM_EDITOR"
    /\ \/ \E v \in NameInputs : editor' = [editor EXCEPT !.name = v]
       \/ \E f \in {"sets", "restBetweenExercises", "restBetweenSets"},
             v \in NumberInputs :
                editor' = [editor EXCEPT ![f] = OrZero(parseInt(v))]
    /\ UNCHANGED <<view, programs, timerVars>>

handleExerciseChange ==
    /\ view = "PROGRAM_EDITOR"
    /\ \E i \in 1..Len(editor.exercises), v \in NumberInputs :
          editor' = [editor EXCEPT !.exercises[i] = OrZero(parseInt(v))]
    /\ UNCHANGED <<view, programs, timerVars>>

addExercise ==
    /\ view = "PROGRAM_EDITOR"
    /\ Len(editor.exercises) < MaxExercises
    /\ editor' = [editor EXCEPT !.exercises = Append(@, 30)]
    /\ UNCHANGED <<view, programs, timerVars>>

removeExercise ==
    /\ view = "PROGRAM_EDITOR"
    /\ \E i \in 1..Len(editor.exercises) :
          editor' = [editor EXCEPT !.exercises =
                        SubSeq(@, 1, i - 1) \o SubSeq(@, i + 1, Len(@))]
    /\ UNCHANGED <<view, programs, timerVars>>

\* The Save button, disabled without a name or without an exercise, and
\* App.handleSaveProgram.
handleSave ==
    /\ view = "PROGRAM_EDITOR"
    /\ ~(editor.name = "" \/ Len(editor.exercises) = 0)
    /\ programs' = StorePut(programs, editor)
    /\ view' = "PROGRAM_LIST"
    /\ editor' = newProgram
    /\ UNCHANGED timerVars

\* The editor's Cancel button: back to the list, the edits are dropped.
onCancel ==
    /\ view = "PROGRAM_EDITOR"
    /\ view' = "PROGRAM_LIST"
    /\ editor' = newProgram
    /\ UNCHANGED <<programs, timerVars>>

\* The Start button of a program card: the WorkoutTimer is mounted on the
\* program.
handleStartWorkout ==
    /\ view = "PROGRAM_LIST"
    /\ \E p \in programs : program' = ToProgram(p)
    /\ view' = "WORKOUT_TIMER"
    /\ mounted' = TRUE
    /\ state' = initialState'
    /\ queue' = <<"START">>
    /\ starts' = 1
    /\ prev' = initialState'
    /\ UNCHANGED <<editor, programs, interval, finishCalls, trace, last, sounds,
                   histVars>>

NextEditor ==
    \/ handleCreateNew
    \/ handleInputChange
    \/ handleExerciseChange
    \/ addExercise
    \/ removeExercise
    \/ handleSave
    \/ onCancel
    \/ handleStartWorkout

SpecEditor == InitEditor /\ [][NextEditor]_vars


TypeOK ==
    /\ state.phase \in Phases
    /\ state.status \in Statuses
    /\ state.timeLeft \in Nat
    /\ state.currentSet \in 1..program.sets
    /\ state.currentExerciseIndex \in 0..(NumExercises - 1)
    /\ interval \in 0..1

\* ------------------------------------------------------------------------
\* Properties
\* ------------------------------------------------------------------------
IsPrefix(a, b) == Len(a) <= Len(b) /\ \A i \in 1..Len(a) : a[i] = b[i]

\* What the phase order speaks of: the phase and its initial timeLeft, and
\* for a work phase the set and the exercise.
Visit(e) ==
    IF e.phase = "WORK" THEN e
    ELSE [phase |-> e.phase, set |-> 0, idx |-> 0,
          timeLeft |-> IF e.phase = "DONE" THEN 0 ELSE e.timeLeft]

Visits(t) == [i \in 1..Len(t) |-> Visit(t[i])]

RECURSIVE ExpectedFrom(_, _)
ExpectedFrom(s, i) ==
    LET work == [phase |-> "WORK", set |-> s, idx |-> i,
                 timeLeft |-> program.exercises[i + 1]]
    IN  IF i < Len(program.exercises) - 1
        THEN <<work, [phase |-> "REST", set |-> 0, idx |-> 0,
                      timeLeft |-> program.restBetweenExercises]>>
             \o ExpectedFrom(s, i + 1)
        ELSE IF s < program.sets
        THEN <<work, [phase |-> "SET_REST", set |-> 0, idx |-> 0,
                      timeLeft |-> program.restBetweenSets]>>
             \o ExpectedFrom(s + 1, 0)
        ELSE <<work, [phase |-> "DONE", set |-> 0, idx |-> 0, timeLeft |-> 0]>>

ExpectedSequence ==
    <<[phase |-> "PREPARE", set |-> 0, idx |-> 0, timeLeft |-> 5]>>
    \o ExpectedFrom(1, 0)

PhaseAndTime(t) == [i \in 1..Len(t) |-> <<t[i].phase, t[i].timeLeft>>]

ExampleSequence ==
    << <<"PREPARE", 5>>, <<"WORK", 10>>, <<"REST", 5>>, <<"WORK", 20>>,
       <<"SET_REST", 15>>, <<"WORK", 10>>, <<"REST", 5>>, <<"WORK", 20>>,
       <<"DONE", 0>> >>

DoneEntered == trace # <<>> /\ trace[Len(trace)].phase = "DONE"

\* The state in which phase first becomes DONE: the commit that dispatched
\* the second START of the session.
FirstDone == state.phase = "DONE" /\ starts = 2

\* C1: run by the driver without Pause and Stop, a session enters its
\* phases in the order Preparing(5), then per set and per exercise Working
\* (set, exercise, duration) followed by the rest between exercises, the
\* rest between sets or Done; the example program gives the nine phases of
\* the specification, one exercise and one set give Preparing, Working,
\* Done.
C1_PhaseOrder ==
    /\ IsPrefix(Visits(trace), ExpectedSequence)
    /\ DoneEntered => Visits(trace) = ExpectedSequence
    /\ state.phase = "DONE" => DoneEntered
    /\ (DoneEntered /\ program = ExampleProgram)
          => PhaseAndTime(trace) = ExampleSequence
    /\ (DoneEntered /\ Len(program.exercises) = 1 /\ program.sets = 1)
          => PhaseAndTime(trace) =
                << <<"PREPARE", 5>>, <<"WORK", program.exercises[1]>>,
                   <<"DONE", 0>> >>

C1_Witness ==
    /\ program = ExampleProgram
    /\ state.phase = "DONE"
    /\ Len(trace) = 9

RECURSIVE SumTimeLeft(_)
SumTimeLeft(t) ==
    IF t = <<>> THEN 0 ELSE Head(t).timeLeft + SumTimeLeft(Tail(t))

\* C2: totalWorkoutTime equals the sum of the initial timeLeft of the
\* phases from Preparing to Done, and elapsedTime equals totalWorkoutTime
\* when phase first becomes Done (90 for the example program, 5 + duration
\* for one exercise and one set).
C2_TotalMatchesPhases ==
    /\ DoneEntered => SumTimeLeft(trace) = state.totalWorkoutTime
    /\ FirstDone => state.elapsedTime = state.totalWorkoutTime
    /\ (FirstDone /\ program = ExampleProgram) => state.elapsedTime = 90
    /\ (FirstDone /\ Len(program.exercises) = 1 /\ program.sets = 1)
          => state.elapsedTime = 5 + program.exercises[1]

C2_Witness ==
    /\ FirstDone
    /\ program = ExampleProgram
    /\ state.elapsedTime = 90
    /\ SumTimeLeft(trace) = 90

\* C3: Done is terminal: once phase = Done with status = Idle, every later
\* state has phase = Done and status = Idle and the driver dispatches
\* nothing more.
C3_DoneTerminal ==
    [][(state.phase = "DONE" /\ state.status = "IDLE")
          => (state'.phase = "DONE" /\ state'.status = "IDLE"
              /\ queue' = <<>>)]_vars

\* C4: in every state of a driver-run session, with any Pause and Resume,
\* elapsedTime <= totalWorkoutTime.
C4_ElapsedBounded == state.elapsedTime <= state.totalWorkoutTime

FullyConsumed ==
    /\ state.currentSet = program.sets
    /\ state.currentExerciseIndex = Len(program.exercises) - 1
    /\ state.timeLeft = 0

\* C5: phase = Done exactly when status = Idle and the workout is fully
\* consumed; no state has Done with Running or Paused, and only the
\* initial snapshot has Idle with a phase other than Done.
C5_DoneIffIdle ==
    /\ state.phase = "DONE" <=> (state.status = "IDLE" /\ FullyConsumed)
    /\ state.phase = "DONE" => state.status \notin {"RUNNING", "PAUSED"}
    /\ (state.status = "IDLE" /\ state.phase # "DONE") => state = initialState

\* C6: Tick on Running with timeLeft = t > 0 gives timeLeft = t - 1 and
\* elapsedTime + 1 and changes no other field, the phase included also
\* when the result is 0; Tick on Paused, on Idle or on timeLeft = 0 returns
\* the state unchanged.
C6_Tick ==
    last = <<"TICK">> =>
        IF prev.status = "RUNNING" /\ prev.timeLeft > 0
        THEN /\ state.timeLeft = prev.timeLeft - 1
             /\ state.elapsedTime = prev.elapsedTime + 1
             /\ state.phase = prev.phase
             /\ state.status = prev.status
             /\ state.currentSet = prev.currentSet
             /\ state.currentExerciseIndex = prev.currentExerciseIndex
             /\ state.totalWorkoutTime = prev.totalWorkoutTime
        ELSE state = prev

C6_Witness ==
    /\ last = <<"TICK">>
    /\ prev.status = "RUNNING"
    /\ prev.timeLeft = 1
    /\ state.timeLeft = 0
    /\ state.phase = "WORK"

\* The transition table of AdvancePhase, from state p to state s.
AdvanceTable(p, s) ==
    LET n == Len(program.exercises)
        i == p.currentExerciseIndex
    IN  CASE p.phase = "PREPARE" ->
                /\ s = [p EXCEPT !.phase = "WORK",
                                 !.timeLeft = program.exercises[1]]
                /\ s.currentExerciseIndex = 0
          [] p.phase = "WORK" /\ i < n - 1 ->
                s = [p EXCEPT !.phase = "REST",
                              !.timeLeft = program.restBetweenExercises]
          [] p.phase = "WORK" /\ i = n - 1 /\ p.currentSet < program.sets ->
                s = [p EXCEPT !.phase = "SET_REST",
                              !.timeLeft = program.restBetweenSets]
          [] p.phase = "WORK" /\ i = n - 1 /\ p.currentSet = program.sets ->
                s = [p EXCEPT !.phase = "DONE", !.status = "IDLE"]
          [] p.phase = "REST" ->
                s = [p EXCEPT !.phase = "WORK",
                              !.currentExerciseIndex = i + 1,
                              !.timeLeft = program.exercises[i + 2]]
          [] p.phase = "SET_REST" ->
                s = [p EXCEPT !.phase = "WORK",
                              !.currentSet = p.currentSet + 1,
                              !.currentExerciseIndex = 0,
                              !.timeLeft = program.exercises[1]]
          [] OTHER -> TRUE

\* C7: AdvancePhase on a state with timeLeft = 0 follows the transition
\* table: Preparing -> Working on exercise 0 with the index staying 0,
\* Working -> rest between exercises, rest between sets or Done + Idle,
\* rest between exercises -> Working on the next exercise, rest between
\* sets -> Working on exercise 0 of the next set; nothing else changes.
C7_AdvanceTable ==
    (last = <<"NEXT_PHASE">> /\ prev.timeLeft = 0) => AdvanceTable(prev, state)

\* C8: Start on the initial snapshot gives Running, Preparing, timeLeft 5,
\* currentSet 1, currentExerciseIndex 0, elapsedTime 0 and exactly one
\* "start" notification.
C8_Start ==
    (last = <<"START">> /\ prev = initialState) =>
        /\ state.status = "RUNNING"
        /\ state.phase = "PREPARE"
        /\ state.timeLeft = 5
        /\ state.currentSet = 1
        /\ state.currentExerciseIndex = 0
        /\ state.elapsedTime = 0
        /\ sounds = <<"start">>

C8_Witness ==
    /\ last = <<"START">>
    /\ prev = initialState
    /\ state.status = "RUNNING"
    /\ Len(program.exercises) = 2

\* The total-duration formula of the specification.
TotalDuration ==
    5 + program.sets * SumSeq(program.exercises)
      + program.sets * program.restBetweenExercises * (Len(program.exercises) - 1)
      + (program.sets - 1) * program.restBetweenSets

\* C9: Stop on any non-idle state returns the initial snapshot: Preparing,
\* Idle, timeLeft 5, currentSet 1, currentExerciseIndex 0, elapsedTime 0
\* and totalWorkoutTime as the total-duration formula gives it.
C9_Stop ==
    (last = <<"STOP">> /\ prev.status # "IDLE") =>
        state = [phase |-> "PREPARE", status |-> "IDLE", timeLeft |-> 5,
                 currentSet |-> 1, currentExerciseIndex |-> 0,
                 totalWorkoutTime |-> TotalDuration, elapsedTime |-> 0]

C9_Witness ==
    /\ last = <<"STOP">>
    /\ prev.status = "PAUSED"
    /\ prev.phase = "WORK"
    /\ prev.currentSet = 2
    /\ prev.currentExerciseIndex = 1
    /\ prev.elapsedTime > 0
    /\ state.status = "IDLE"

\* C10: Pause is idempotent: a Pause applied to the result of a Pause
\* changes nothing, and from Running the status after one or two Pauses is
\* Paused.
C10_PauseIdempotent ==
    last = <<"PAUSE">> =>
        /\ Pause(state) = state
        /\ prev.status = "RUNNING" =>
              (state.status = "PAUSED" /\ Pause(state).status = "PAUSED")

C10_Witness ==
    /\ last = <<"PAUSE">>
    /\ prev.status = "PAUSED"
    /\ state = prev
    /\ state.elapsedTime > 0

\* C11: Pause is guarded by status: on Running it sets Paused and changes
\* nothing else; on Paused or Idle (the initial snapshot and the Done state
\* included) it returns the state unchanged.
C11_PauseGuarded ==
    last = <<"PAUSE">> =>
        IF prev.status = "RUNNING"
        THEN state = [prev EXCEPT !.status = "PAUSED"]
        ELSE state = prev

\* C12: Resume is guarded by status: on Paused it sets Running and changes
\* nothing else; on Running or Idle (the initial snapshot and the Done
\* state included) it returns the state unchanged.
C12_ResumeGuarded ==
    last = <<"RESUME">> =>
        IF prev.status = "PAUSED"
        THEN state = [prev EXCEPT !.status = "RUNNING"]
        ELSE state = prev

\* C13: AdvancePhase on a state with timeLeft > 0 returns the state
\* unchanged, whatever the phase and the status.
C13_AdvanceMisuseNoOp ==
    (last = <<"NEXT_PHASE">> /\ prev.timeLeft > 0) => state = prev

\* C14: on the terminal state (phase Done, status Idle) each of Start,
\* Tick, Pause, Resume and AdvancePhase returns the state unchanged.
C14_TerminalNoOp ==
    (/\ prev.phase = "DONE" /\ prev.status = "IDLE"
     /\ Len(last) = 1
     /\ last[1] \in {"START", "TICK", "PAUSE", "RESUME", "NEXT_PHASE"})
        => state = prev

\* C15: zero-duration phases are skipped without a Tick: whenever the
\* committed state has timeLeft = 0 and a phase other than Done, the
\* observer's NEXT_PHASE is the next action the reducer applies, also when
\* several zero-duration phases follow one another.
C15_ZeroPhaseSkipped ==
    /\ (mounted /\ state.timeLeft = 0 /\ state.phase # "DONE")
          => (queue # <<>> /\ Head(queue) = "NEXT_PHASE")
    /\ (last # <<>> /\ prev.timeLeft = 0 /\ prev.phase # "DONE")
          => last[1] = "NEXT_PHASE"

C15_Witness ==
    /\ last = <<"NEXT_PHASE">>
    /\ prev.phase = "WORK" /\ prev.timeLeft = 0
    /\ program.exercises[prev.currentExerciseIndex + 1] = 0
    /\ state.phase = "REST" /\ state.timeLeft = 0
    /\ queue = <<"NEXT_PHASE">>

\* C16: under any sequence of the six events, timeLeft >= 0,
\* 1 <= currentSet <= sets and 0 <= currentExerciseIndex <= n - 1, and the
\* exercise a rest between exercises leads to is in the list.
C16_Ranges ==
    /\ state.timeLeft >= 0
    /\ 1 <= state.currentSet /\ state.currentSet <= program.sets
    /\ 0 <= state.currentExerciseIndex
    /\ state.currentExerciseIndex <= Len(program.exercises) - 1
    /\ state.phase = "REST"
          => state.currentExerciseIndex + 1 <= Len(program.exercises) - 1

C16_Witness ==
    /\ last = <<"NEXT_PHASE">>
    /\ prev.phase = "PREPARE"
    /\ prev.currentSet = 2 /\ prev.currentExerciseIndex = 1
    /\ state.phase = "WORK"
    /\ state.currentSet = program.sets
    /\ state.currentExerciseIndex = Len(program.exercises) - 1

\* C17: the driver holds at most one timer, and holds one exactly while the
\* component is mounted with status Running; no TICK is dispatched while
\* the status is Paused or Idle, and none after the teardown.
C17_OneTimer ==
    /\ interval \in {0, 1}
    /\ interval = 1 <=> (mounted /\ state.status = "RUNNING")
    /\ (\E i \in 1..Len(queue) : queue[i] = "TICK")
          => (mounted /\ state.status = "RUNNING")

C17_Witness ==
    /\ last = <<"RESUME">>
    /\ prev.status = "PAUSED"
    /\ state.status = "RUNNING"
    /\ interval = 1
    /\ state.elapsedTime > 0

C19_Countdown ==
    last = <<"TICK">> =>
        IF /\ prev.status = "RUNNING" /\ prev.timeLeft > 0
           /\ state.timeLeft \in {1, 2, 3}
        THEN sounds = <<"tick">>
        ELSE sounds = <<>>

C19_Witness ==
    /\ last = <<"TICK">>
    /\ prev.status = "RUNNING"
    /\ prev.timeLeft = 2
    /\ state.timeLeft = 1
    /\ sounds = <<"tick">>

IsOne(v) == v.kind = "number" /\ v.num = v.den

\* C20: in every state whose current phase has duration 0 the phase
\* progress is 1, never the result of a division by zero, and in phase Done
\* the progress is 1.
C20_ZeroDurationProgress ==
    mounted =>
        /\ state.phase = "DONE" => IsOne(phaseProgress(state))
        /\ (state.phase # "DONE" /\ getPhaseDuration(state) = 0)
              => IsOne(phaseProgress(state))

NotLast(s) ==
    s.phase \in {"WORK", "REST"} /\ s.currentExerciseIndex < NumExercises - 1

\* C22 as stated: during WORK or REST with the current exercise not the last
\* the preview is the exercise at currentExerciseIndex; during SET_REST and
\* in every other case it is the first exercise.
C22_PreviewAtCurrentIndex ==
    /\ NotLast(state) => nextExercise(state) = state.currentExerciseIndex
    /\ ~NotLast(state) => nextExercise(state) = 0

\* C22 amended: the next-exercise preview is a function of state and program:
\* during WORK or REST with the current exercise not the last it is the
\* exercise at currentExerciseIndex + 1; during SET_REST and in every other
\* case it is the first exercise.
C22_PreviewAtNextIndex ==
    /\ NotLast(state) => nextExercise(state) = state.currentExerciseIndex + 1
    /\ state.phase = "SET_REST" => nextExercise(state) = 0
    /\ ~NotLast(state) => nextExercise(state) = 0

C22_Witness ==
    /\ state.phase = "REST"
    /\ NotLast(state)
    /\ nextExercise(state) = 1
    /\ program.exercises[1] # program.exercises[2]

AdvancePending == queue # <<>> /\ Head(queue) = "NEXT_PHASE"

\* The observer dispatches NEXT_PHASE against a committed state with
\* timeLeft 0 and a phase other than DONE, once: one NEXT_PHASE is queued
\* then, at the head, and none otherwise.
ObserverOnZeroOnly ==
    /\ \A i \in 1..Len(queue) :
          queue[i] = "NEXT_PHASE" =>
              i = 1 /\ state.timeLeft = 0 /\ state.phase # "DONE"
    /\ (state.timeLeft = 0 /\ state.phase # "DONE") => AdvancePending

\* A phase of duration d > 0 has had d honoured TICKs when it is advanced.
TicksBeforeAdvance ==
    (AdvancePending /\ getPhaseDuration(state) > 0)
        => ticks = getPhaseDuration(state)

\* When DONE is first reached, one 'end' was played per phase passed.
EndsAtFirstDone ==
    FirstDone => ends = Len(ExpectedSequence) - 1 /\ ends = Len(trace) - 1

\* C23: the observer dispatches NEXT_PHASE only against timeLeft = 0 and a
\* phase other than DONE, once per phase end: a phase of duration d > 0 gets
\* exactly d honoured TICKs before it is advanced, and the 'end' sounds
\* played when DONE is first reached are as many as the phases passed.
C23_AdvanceOncePerPhase ==
    /\ ObserverOnZeroOnly
    /\ TicksBeforeAdvance
    /\ EndsAtFirstDone

\* The same up to the first DONE of the session.
C23_UntilFirstDone ==
    /\ ObserverOnZeroOnly
    /\ (starts = 1 => TicksBeforeAdvance)
    /\ EndsAtFirstDone

\* The place of the current phase in the phase order, and the initial
\* timeLeft of the phases after it.
Position == IF trace = <<>> THEN 1 ELSE Len(trace)

StillToCome ==
    SumTimeLeft(SubSeq(ExpectedSequence, Position + 1, Len(ExpectedSequence)))

Completed == SumTimeLeft(SubSeq(ExpectedSequence, 1, Position - 1))

\* C24: in every reachable state, with any interleaving of Pause and
\* Resume, elapsedTime is the durations of the phases completed plus
\* (duration of the current phase - timeLeft); equivalently elapsedTime +
\* timeLeft + the durations of the phases still to come = totalWorkoutTime.
C24_TimeAccounting ==
    /\ state.elapsedTime =
          Completed + (ExpectedSequence[Position].timeLeft - state.timeLeft)
    /\ state.elapsedTime + state.timeLeft + StillToCome = state.totalWorkoutTime

\* The same up to the first DONE of the session.
C24_UntilFirstDone ==
    (starts = 1 \/ (FirstDone /\ ends = Len(ExpectedSequence) - 1))
        => C24_TimeAccounting

\* What a paused session keeps.
Frozen(s) ==
    <<s.phase, s.timeLeft, s.elapsedTime, s.currentSet, s.currentExerciseIndex>>

Applied(a) == \E i \in 1..Len(last) : last[i] = a

\* C25: a paused session is frozen: from a state with status PAUSED, phase,
\* timeLeft, elapsedTime, currentSet and currentExerciseIndex do not change
\* until RESUME or STOP is dispatched, also when the pause happened at
\* timeLeft = 0; and PAUSE followed by RESUME from a RUNNING state gives the
\* state before the PAUSE.
C25_PausedFrozen ==
    /\ (prev.status = "PAUSED" /\ ~Applied("RESUME") /\ ~Applied("STOP"))
          => Frozen(state) = Frozen(prev)
    /\ state.status = "RUNNING"
          => timerReducer(timerReducer(state, "PAUSE"), "RESUME") = state

\* The parts of C25 that do not involve NEXT_PHASE.
C25_FrozenButAdvance ==
    /\ (prev.status = "PAUSED" /\ ~Applied("RESUME") /\ ~Applied("STOP")
           /\ ~Applied("NEXT_PHASE"))
          => Frozen(state) = Frozen(prev)
    /\ state.status = "RUNNING"
          => timerReducer(timerReducer(state, "PAUSE"), "RESUME") = state

\* C26 as stated: with weak fairness on the tick and on the observer's
\* NEXT_PHASE, every Pause followed by Resume and no Stop, the session
\* reaches DONE.
C26_Terminates == <>(state.phase = "DONE")

\* C26 amended: the same when moreover the session is paused only finitely
\* many times.
C26_TerminatesFinitePauses ==
    <>[](state.status # "PAUSED") => <>(state.phase = "DONE")

C26_Witness ==
    /\ state.phase = "DONE"
    /\ state.status = "IDLE"
    /\ Len(program.exercises) = 2 /\ program.sets = 2
    /\ state.elapsedTime = state.totalWorkoutTime
    /\ state.totalWorkoutTime > PREPARE_TIME

\* A progress value that is not negative and not above 1.
InUnitRange(v) ==
    /\ v.kind \notin {"Infinity", "-Infinity"}
    /\ v.kind = "number" => (0 <= v.num /\ v.num <= v.den)

\* C27: in every reachable state of a session run by the driver, timeLeft
\* is at most the duration of the current phase as getPhaseDuration gives
\* it, so the phase progress is never negative and never above 1.
C27_TimeLeftWithinPhase ==
    /\ state.timeLeft >= 0
    /\ state.timeLeft <= getPhaseDuration(state)
    /\ InUnitRange(phaseProgress(state))

\* The same up to the first DONE of the session.
C27_UntilFirstDone == (starts = 1 \/ FirstDone) => C27_TimeLeftWithinPhase

====
